---- MODULE Spec2Model ----
(***************************************************************************)
(* A model of fundamental_dashboard.py: the metric normalisation, the      *)
(* per-metric scorers, compute_scores and label_from_score.                *)
(*                                                                         *)
(* Python values are records [k, n, d]: k = "num" is the number n/d (a     *)
(* reduced fraction, d > 0), k = "nan" is float('nan'), k = "None" is      *)
(* None and k = "str" is a string such as 'N/A'.  Arithmetic is exact      *)
(* rational arithmetic with NaN propagating and every comparison with NaN  *)
(* false, as IEEE comparisons are; the rounding error of binary floating   *)
(* point is not modelled.                                                  *)
(***************************************************************************)
EXTENDS Integers, Sequences, FiniteSets, TLC

VARIABLES
    pc,               \* the script's position
    info,             \* stock.info, a dict (a function on the keys present)
    financials,       \* what stock.financials.loc['Total Revenue'] gives
    sector,
    pe_ratio, pb_ratio, roe, debt_to_equity, profit_margin,
    dividend_yield, operating_margin, beta, current_ratio,
    benchmarks,
    rev_growth,
    overall_score, detail_scores, reasons,
    label,
    call,             \* scorer harness: the function applied and its arguments
    result            \* scorer harness: what the function returned

vars == <<pc, info, financials, sector, pe_ratio, pb_ratio, roe, debt_to_equity,
          profit_margin, dividend_yield, operating_margin, beta, current_ratio,
          benchmarks, rev_growth, overall_score, detail_scores, reasons, label,
          call, result>>

script_vars == <<pc, info, financials, sector, pe_ratio, pb_ratio, roe,
                 debt_to_equity, profit_margin, dividend_yield, operating_margin,
                 beta, current_ratio, benchmarks, rev_growth, overall_score,
                 detail_scores, reasons, label>>

(***************************************************************************)
(* Bounds of the model.                                                    *)
(***************************************************************************)
\* company fixtures the script is run on (rows of Profiles)
NumProfiles == 3
\* P/E inputs of the scorer harness: k/2 for k in 0..MaxPE
MaxPE == 140
\* return-on-equity inputs: the fractions k/200 for k in -MaxROE..5*MaxROE
MaxROE == 10
\* band inputs: the values k/10 for k in -MaxBand..3*MaxBand
MaxBand == 20
\* revenue inputs: recent revenue in 0..MaxRevenue
MaxRevenue == 130

(***************************************************************************)
(* Python values and float arithmetic.                                     *)
(***************************************************************************)
Abs(x) == IF x < 0 THEN -x ELSE x

RECURSIVE GCD(_, _)
GCD(a, b) == IF b = 0 THEN a ELSE GCD(b, a % b)

Num(n, d) ==
    LET g == GCD(Abs(n), Abs(d))
        s == IF d < 0 THEN -1 ELSE 1
    IN  [k |-> "num", n |-> s * (n \div g), d |-> s * (d \div g)]

Flt(n) == Num(n, 1)
NaN == [k |-> "nan", n |-> 0, d |-> 1]
None == [k |-> "None", n |-> 0, d |-> 1]
NA == [k |-> "str", n |-> 0, d |-> 1]

IsNaN(x) == x.k = "nan"
IsNum(x) == x.k = "num"

Add(a, b) ==
    IF IsNaN(a) \/ IsNaN(b) THEN NaN
    ELSE LET g == GCD(a.d, b.d)
         IN  Num(a.n * (b.d \div g) + b.n * (a.d \div g), (a.d \div g) * b.d)

Neg(a) == IF IsNaN(a) THEN NaN ELSE Num(-a.n, a.d)

Sub(a, b) == Add(a, Neg(b))

Mul(a, b) ==
    IF IsNaN(a) \/ IsNaN(b) THEN NaN
    ELSE LET g1 == GCD(Abs(a.n), b.d)
             g2 == GCD(Abs(b.n), a.d)
         IN  Num((a.n \div g1) * (b.n \div g2), (a.d \div g2) * (b.d \div g1))

\* a / b for b # 0 (every division of the script is guarded against b = 0)
Div(a, b) ==
    IF IsNaN(a) \/ IsNaN(b) THEN NaN
    ELSE Mul(a, Num(b.d, b.n))

Le(a, b) == IsNum(a) /\ IsNum(b) /\ a.n * b.d <= b.n * a.d
Lt(a, b) == IsNum(a) /\ IsNum(b) /\ a.n * b.d < b.n * a.d
Ge(a, b) == Le(b, a)
Gt(a, b) == Lt(b, a)
\* a != b on floats: true when either is NaN
Ne(a, b) == ~(IsNum(a) /\ IsNum(b) /\ a.n * b.d = b.n * a.d)

\* Python's max(a, b) and min(a, b): the first argument unless the second beats it
PyMax(a, b) == IF Gt(b, a) THEN b ELSE a
PyMin(a, b) == IF Lt(b, a) THEN b ELSE a

\* round(x * 10^e) for e = 0, 1, to the nearest with ties to even
RoundScaled(x, scale) ==
    LET m == x.n * scale
        t == m \div x.d
        r == m - t * x.d
    IN  IF 2 * r < x.d THEN t
        ELSE IF 2 * r > x.d THEN t + 1
        ELSE IF t % 2 = 0 THEN t ELSE t + 1

\* round(x, 1)
Round1(x) == IF IsNaN(x) THEN NaN ELSE Num(RoundScaled(x, 10), 10)
\* the number f"{x:.0f}" prints
Fmt0(x) == IF IsNaN(x) THEN NaN ELSE Flt(RoundScaled(x, 1))

\* isinstance(x, (int, float)) and isinstance(x, (int, float, np.number))
IsInstanceNumber(x) == x.k \in {"num", "nan"}

num(x) == IF IsInstanceNumber(x) THEN x ELSE None

(***************************************************************************)
(* Scoring helpers.                                                        *)
(***************************************************************************)
score_lower_is_better(value, target, loose_high) ==
    LET v == num(value)
    IN  IF v = None THEN None
        ELSE IF Le(v, target) THEN Flt(100)
        ELSE IF Ge(v, loose_high) THEN Flt(0)
        ELSE PyMax(Flt(0),
                   Mul(Flt(100),
                       Sub(Flt(1), Div(Sub(v, target), Sub(loose_high, target)))))

score_higher_is_better(value, target, loose_low) ==
    LET v == num(value)
    IN  IF v = None THEN None
        ELSE IF Ge(v, target) THEN Flt(100)
        ELSE IF Le(v, loose_low) THEN Flt(0)
        ELSE PyMax(Flt(0),
                   Mul(Flt(100),
                       Div(Sub(v, loose_low), Sub(target, loose_low))))

\* Mutant: 100 inside the band and 0 outside, with no decay to the hard bounds.
score_within_band_cliff(value, low, high, hard_low_arg, hard_high_arg) ==
    LET v == num(value)
    IN  IF v = None THEN None
        ELSE IF Le(low, v) /\ Le(v, high) THEN Flt(100)
        ELSE Flt(0)

score_within_band_best(value, low, high, hard_low_arg, hard_high_arg) ==
    LET v == num(value)
        hard_low == IF hard_low_arg = None THEN Sub(low, Sub(high, low))
                    ELSE hard_low_arg
        hard_high == IF hard_high_arg = None THEN Add(high, Sub(high, low))
                     ELSE hard_high_arg
    IN  IF v = None THEN None
        ELSE IF Le(low, v) /\ Le(v, high) THEN Flt(100)
        ELSE IF Lt(v, low)
             THEN IF Le(v, hard_low) THEN Flt(0)
                  ELSE PyMax(Flt(0),
                             Div(Mul(Flt(100), Sub(v, hard_low)),
                                 Sub(low, hard_low)))
             ELSE IF Ge(v, hard_high) THEN Flt(0)
                  ELSE PyMax(Flt(0),
                             Div(Mul(Flt(100), Sub(hard_high, v)),
                                 Sub(hard_high, high)))

score_beta(b) ==
    score_within_band_best(b, Num(8, 10), Num(12, 10), Num(4, 10), Num(18, 10))

score_dividend_yield(y) ==
    LET v == num(y)
    IN  IF v = None THEN None
        ELSE IF Le(v, Flt(6))
             THEN PyMax(Flt(0), PyMin(Flt(100), Mul(Div(v, Flt(3)), Flt(100))))
             ELSE Flt(100)

\* Mutant: the slope of the 0..10 segment used for negative growth as well.
score_revenue_growth_one_slope(g) ==
    LET v == num(g)
    IN  IF v = None THEN None
        ELSE IF Ge(v, Flt(20)) THEN Flt(100)
        ELSE IF Ge(v, Flt(10)) THEN Add(Flt(70), Mul(Sub(v, Flt(10)), Flt(3)))
        ELSE IF Ge(v, Flt(0)) THEN Add(Flt(40), Mul(v, Flt(3)))
        ELSE IF Le(v, Flt(-20)) THEN Flt(0)
        ELSE PyMax(Flt(0), Add(Flt(40), Mul(v, Flt(3))))

score_revenue_growth(g) ==
    LET v == num(g)
    IN  IF v = None THEN None
        ELSE IF Ge(v, Flt(20)) THEN Flt(100)
        ELSE IF Ge(v, Flt(10)) THEN Add(Flt(70), Mul(Sub(v, Flt(10)), Flt(3)))
        ELSE IF Ge(v, Flt(0)) THEN Add(Flt(40), Mul(v, Flt(3)))
        ELSE IF Le(v, Flt(-20)) THEN Flt(0)
        ELSE PyMax(Flt(0), Add(Flt(40), Mul(v, Flt(2))))

(***************************************************************************)
(* The provider's data: stock.info and the annual revenues.                *)
(***************************************************************************)
EmptyDict == [x \in {} |-> None]

\* dict.get(key, default)
Get(dict, key, default) == IF key \in DOMAIN dict THEN dict[key] ELSE default

MetricKeys == {"trailingPE", "priceToBook", "returnOnEquity", "debtToEquity",
               "profitMargins", "dividendYield", "operatingMargins", "beta",
               "currentRatio"}

\* Company fixtures: what the provider reports for each key when it reports a
\* number.  "" stands for a company the provider gives no sector for.
Profiles == <<
    [sector |-> "Technology",
     trailingPE |-> Num(4936, 100), priceToBook |-> Flt(5),
     returnOnEquity |-> Num(135, 1000), debtToEquity |-> Num(1126, 10),
     profitMargins |-> Num(12, 100), operatingMargins |-> Num(5, 100),
     dividendYield |-> Num(6, 1000), beta |-> Flt(1),
     currentRatio |-> Num(115, 100)],
    [sector |-> "Financial Services",
     trailingPE |-> Flt(28), priceToBook |-> Num(325, 100),
     returnOnEquity |-> Num(15, 100), debtToEquity |-> Flt(350),
     profitMargins |-> Num(5, 100), operatingMargins |-> Num(30, 100),
     dividendYield |-> Num(45, 1000), beta |-> Num(159, 100),
     currentRatio |-> Flt(4)],
    [sector |-> "Utilities",
     trailingPE |-> Flt(15), priceToBook |-> Flt(2),
     returnOnEquity |-> Num(20, 100), debtToEquity |-> Flt(40),
     profitMargins |-> Num(25, 100), operatingMargins |-> Num(30, 100),
     dividendYield |-> Num(7, 100), beta |-> Flt(1),
     currentRatio |-> Flt(2)],
    [sector |-> "",
     trailingPE |-> Flt(60), priceToBook |-> Flt(10),
     returnOnEquity |-> Num(-5, 100), debtToEquity |-> Flt(50),
     profitMargins |-> Num(-10, 100), operatingMargins |-> Num(2, 100),
     dividendYield |-> Flt(0), beta |-> Flt(2),
     currentRatio |-> Num(5, 10)] >>

\* How the provider reports a metric it has no number for: the key is absent,
\* its value is None, or its value is float('nan').
MissingKinds == {"absent", "None", "nan"}

InfoOf(p, present, kind) ==
    LET keys == (IF kind = "absent" THEN present ELSE MetricKeys)
                \cup (IF Profiles[p].sector = "" THEN {} ELSE {"sector"})
    IN  [key \in keys |->
            IF key = "sector" THEN Profiles[p].sector
            ELSE IF key \in present THEN Profiles[p][key]
            ELSE IF kind = "None" THEN None ELSE NaN]

InfoInputs ==
    {InfoOf(p, present, kind) :
        p \in 1..NumProfiles, present \in SUBSET MetricKeys, kind \in MissingKinds}

\* stock.financials.loc['Total Revenue']: the lookup raises, or gives the
\* annual revenues, most recent first.
Raises == [ok |-> FALSE, data |-> <<>>]
Revenues(data) == [ok |-> TRUE, data |-> data]

RevenueInputs ==
    {Raises, Revenues(<<Flt(110)>>), Revenues(<<Flt(110), Flt(100)>>),
     Revenues(<<Flt(100), Flt(0)>>), Revenues(<<NaN, Flt(100)>>)}

(***************************************************************************)
(* The script, lines 128-185: pulling, formatting, benchmarks, growth.     *)
(***************************************************************************)
\* Mutant: the provider's fraction left as it is.
NotTimesHundred(x) == x

\* if isinstance(x, (int, float)): x *= 100
TimesHundred(x) == IF IsInstanceNumber(x) THEN Mul(x, Flt(100)) ELSE x

\* if isinstance(x, (int, float)): x /= 100
OverHundred(x) == IF IsInstanceNumber(x) THEN Div(x, Flt(100)) ELSE x

Bench(pe, pb, r, pm) == [PE |-> pe, PB |-> pb, ROE |-> r, ProfitMargin |-> pm]

sector_benchmarks ==
    [s \in {"Technology", "Healthcare", "Financial Services", "Consumer Defensive",
            "Industrials", "Energy", "Unknown"} |->
        CASE s = "Technology" -> Bench(Flt(25), Flt(6), Flt(18), Flt(15))
          [] s = "Healthcare" -> Bench(Flt(20), Flt(4), Flt(14), Flt(12))
          [] s = "Financial Services" -> Bench(Flt(14), Num(15, 10), Flt(10), Flt(20))
          [] s = "Consumer Defensive" -> Bench(Flt(22), Num(35, 10), Flt(15), Flt(10))
          [] s = "Industrials" -> Bench(Flt(18), Num(25, 10), Flt(12), Flt(8))
          [] s = "Energy" -> Bench(Flt(12), Num(18, 10), Flt(16), Flt(10))
          [] s = "Unknown" -> Bench(Flt(20), Flt(3), Flt(12), Flt(10))]

\* sector_benchmarks.get(sector, sector_benchmarks["Unknown"])
LookupBenchmarks(s) == Get(sector_benchmarks, s, sector_benchmarks["Unknown"])

\* info.get('sector', 'Unknown')
PullSector(dict) == Get(dict, "sector", "Unknown")

\* rev_growth as lines 176-185 leave it
RevGrowth(revenue_data) ==
    IF ~revenue_data.ok THEN None
    ELSE IF Len(revenue_data.data) >= 2
         THEN LET recent == revenue_data.data[1]
                  previous == revenue_data.data[2]
              IN  IF Ne(previous, Flt(0))
                  THEN Mul(Div(Sub(recent, previous), previous), Flt(100))
                  ELSE None
         ELSE None

(***************************************************************************)
(* The scoring engine.                                                     *)
(***************************************************************************)
Component(name, s, w) == [name |-> name, s |-> s, w |-> w]

\* s_pe, s_pb, s_roe, s_margin, s_de, s_cr as compute_scores computes them
\* Mutant: the P/B multiplier and floor used for P/E.
ScorePEAsPB(pe, bm) ==
    score_lower_is_better(pe, bm.PE, PyMax(Mul(bm.PE, Flt(3)), Flt(5)))

ScorePE(pe, bm) ==
    score_lower_is_better(pe, bm.PE, PyMax(Mul(bm.PE, Num(25, 10)), Flt(10)))

ScorePB(pb, bm) ==
    score_lower_is_better(pb, bm.PB, PyMax(Mul(bm.PB, Flt(3)), Flt(5)))

ScoreROE(r, bm) == score_higher_is_better(r, bm.ROE, Flt(0))

ScoreMargin(pm_, om, bm) ==
    LET pm == IF num(pm_) # None THEN pm_ ELSE om
    IN  score_higher_is_better(pm, bm.ProfitMargin, Flt(0))

ScoreDE(de) == score_lower_is_better(de, Num(5, 10), Flt(3))

ScoreCR(cr) ==
    score_within_band_best(cr, Num(15, 10), Flt(3), Num(8, 10), Flt(5))

\* the components dict, in insertion order
components ==
    << Component("Valuation (PE)", ScorePE(pe_ratio, benchmarks), Num(20, 100)),
       Component("Valuation (PB)", ScorePB(pb_ratio, benchmarks), Num(10, 100)),
       Component("Profitability (ROE)", ScoreROE(roe, benchmarks), Num(15, 100)),
       Component("Profitability (Margins)",
                 ScoreMargin(profit_margin, operating_margin, benchmarks),
                 Num(10, 100)),
       Component("Growth (Revenue YoY)", score_revenue_growth(rev_growth),
                 Num(20, 100)),
       Component("Health (Debt/Equity)", ScoreDE(debt_to_equity), Num(8, 100)),
       Component("Health (Current Ratio)", ScoreCR(current_ratio), Num(7, 100)),
       Component("Stability (Beta)", score_beta(beta), Num(5, 100)),
       Component("Income (Dividend Yield)", score_dividend_yield(dividend_yield),
                 Num(5, 100)) >>

\* s is not None and not np.isnan(s)
Available(c) == c.s # None /\ ~IsNaN(c.s)

RECURSIVE SumWeights(_, _)
SumWeights(comps, i) ==
    IF i = 0 THEN Flt(0)
    ELSE IF Available(comps[i]) THEN Add(SumWeights(comps, i - 1), comps[i].w)
    ELSE SumWeights(comps, i - 1)

\* Mutant: the weights of all the components, available or not.
RECURSIVE SumAllWeights(_, _)
SumAllWeights(comps, i) ==
    IF i = 0 THEN Flt(0) ELSE Add(SumAllWeights(comps, i - 1), comps[i].w)

TotalWeight(comps) == SumAllWeights(comps, Len(comps))

\* sum(w for s, w in components.values() if s is not None and not np.isnan(s))
TotalWeightAvailable(comps) == SumWeights(comps, Len(comps))

\* Mutant: the fixed weight, not renormalized.
FixedW(c, total) == c.w

\* adj_w = w / total_weight_available
AdjW(c, total) == Div(c.w, total)

RECURSIVE OverallLoop(_, _, _)
OverallLoop(comps, total, i) ==
    IF i = 0 THEN Flt(0)
    ELSE IF Available(comps[i])
         THEN Add(OverallLoop(comps, total, i - 1),
                  Mul(comps[i].s, AdjW(comps[i], total)))
    ELSE OverallLoop(comps, total, i - 1)

\* overall, as the loop of compute_scores leaves it
Overall(comps) == OverallLoop(comps, TotalWeightAvailable(comps), Len(comps))

\* details[name] = round(s, 1)
Details(comps) ==
    LET avail == {i \in 1..Len(comps) : Available(comps[i])}
    IN  [nm \in {comps[i].name : i \in avail} |->
            Round1(comps[CHOOSE i \in avail : comps[i].name = nm].s)]

\* Mutant: a strength only above 75.
IsStrongAbove(c) == Available(c) /\ Gt(c.s, Flt(75))

IsStrong(c) == Available(c) /\ Ge(c.s, Flt(75))
IsWeak(c) == Available(c) /\ ~Ge(c.s, Flt(75)) /\ Le(c.s, Flt(35))

Reason(c, word) == [name |-> c.name, word |-> word, shown |-> Fmt0(c.s)]

RECURSIVE MapReasons(_, _)
MapReasons(cs, word) ==
    IF cs = <<>> THEN <<>>
    ELSE <<Reason(Head(cs), word)>> \o MapReasons(Tail(cs), word)

\* reasons_pos and reasons_neg: f"{name} strong ({s:.0f})", f"{name} weak ({s:.0f})"
ReasonsPos(comps) == MapReasons(SelectSeq(comps, IsStrong), "strong")
ReasonsNeg(comps) == MapReasons(SelectSeq(comps, IsWeak), "weak")

Line(head, items) == [head |-> head, items |-> items]

\* Mutant: no reason given when nothing can be scored.
NoReasons == <<>>

InsufficientData == <<Line("No sufficient data to score.", <<>>)>>

\* compute_scores(): (overall, details, reasons), from line 228 on; comps is the
\* components dict the function has built from the script's globals
compute_scores(comps) ==
    IF TotalWeightAvailable(comps) = Flt(0)
    THEN [overall |-> Flt(0), details |-> EmptyDict, reasons |-> InsufficientData]
    ELSE [overall |-> Round1(Overall(comps)),
          details |-> Details(comps),
          reasons |->
              (IF ReasonsPos(comps) # <<>>
               THEN <<Line("Strengths: ", ReasonsPos(comps))>> ELSE <<>>)
              \o
              (IF ReasonsNeg(comps) # <<>>
               THEN <<Line("Watch-outs: ", ReasonsNeg(comps))>> ELSE <<>>)]

\* Mutant: the bands exclusive at their lower end.
label_from_score_exclusive(score) ==
    IF Gt(score, Flt(80)) THEN "BUY"
    ELSE IF Gt(score, Flt(60)) THEN "HOLD"
    ELSE "SELL"

\* label_from_score(score)[0]
label_from_score(score) ==
    IF Ge(score, Flt(80)) THEN "BUY"
    ELSE IF Ge(score, Flt(60)) THEN "HOLD"
    ELSE "SELL"

(***************************************************************************)
(* Inputs of the scorer harness: one function of the script applied to     *)
(* arguments drawn from a grid.                                            *)
(***************************************************************************)
NoBand == [low |-> None, high |-> None, hard_low |-> None, hard_high |-> None]
Band(low, high, hard_low, hard_high) ==
    [low |-> low, high |-> high, hard_low |-> hard_low, hard_high |-> hard_high]

Call(f, dict, revenue_data, v, band) ==
    [f |-> f, info |-> dict, revenue |-> revenue_data, v |-> v, band |-> band]

NoCall == Call("none", EmptyDict, Raises, None, NoBand)

NoResult == [done |-> FALSE, value |-> None, score |-> None, label |-> ""]
Result(value, score, lbl) ==
    [done |-> TRUE, value |-> value, score |-> score, label |-> lbl]

\* The sector the provider reports: a key of the table, a sector the table does
\* not have, or none at all ("").
SectorInputs == DOMAIN sector_benchmarks \cup {"Utilities", ""}

MetricInfo(key, v, s) ==
    [x \in {key} \cup (IF s = "" THEN {} ELSE {"sector"}) |->
        IF x = "sector" THEN s ELSE v]

PECalls ==
    {Call("pe", MetricInfo("trailingPE", Num(i, 2), s), Raises, None, NoBand) :
        i \in 0..MaxPE, s \in SectorInputs}

ROECalls ==
    {Call("roe", MetricInfo("returnOnEquity", Num(i, 200), s), Raises, None, NoBand) :
        i \in (-MaxROE)..(5 * MaxROE), s \in SectorInputs}

BandGrid == {Num(i, 10) : i \in (-MaxBand)..(3 * MaxBand)}

\* low < high, and each hard bound left out (None) or outside the band
BandEdges ==
    {e \in {<<Num(lo, 10), Num(hi, 10)>> : lo \in {10, 15, 20}, hi \in {10, 15, 20}} :
        Lt(e[1], e[2])}

GenericBands ==
    UNION {{Band(e[1], e[2], hl, hh) :
                hl \in {None, Sub(e[1], Num(5, 10)), Sub(e[1], Num(15, 10))},
                hh \in {None, Add(e[2], Num(5, 10)), Add(e[2], Flt(3))}} :
           e \in BandEdges}

BandCalls ==
    {Call("band", EmptyDict, Raises, v, b) : v \in BandGrid, b \in GenericBands}
    \cup {Call(f, EmptyDict, Raises, v, NoBand) : f \in {"cr", "beta"}, v \in BandGrid}

GrowthCalls ==
    {Call("growth", EmptyDict, r, None, NoBand) :
        r \in {Raises, Revenues(<<>>), Revenues(<<Flt(110)>>)}
              \cup {Revenues(<<Flt(recent), Flt(previous)>>) :
                        recent \in 0..MaxRevenue, previous \in {0, 50, 100, 120}}}

LabelCalls ==
    {Call("label", EmptyDict, Raises, Num(t, 10), NoBand) : t \in 0..1000}

Calls == PECalls \cup ROECalls \cup BandCalls \cup GrowthCalls \cup LabelCalls

(***************************************************************************)
(* The script as a state machine.                                          *)
(***************************************************************************)
Init ==
    /\ pc = "fetch"
    /\ info = EmptyDict
    /\ financials = Raises
    /\ sector = ""
    /\ pe_ratio = None /\ pb_ratio = None /\ roe = None
    /\ debt_to_equity = None /\ profit_margin = None /\ dividend_yield = None
    /\ operating_margin = None /\ beta = None /\ current_ratio = None
    /\ benchmarks = sector_benchmarks["Unknown"]
    /\ rev_growth = None
    /\ overall_score = None
    /\ detail_scores = EmptyDict
    /\ reasons = <<>>
    /\ label = ""
    /\ call = NoCall
    /\ result = NoResult

\* lines 128-171: stock.info (or {} when it raises or is empty), the metrics pulled
\* from it, their formatting, and the sector's benchmarks
FetchData ==
    /\ pc = "fetch"
    /\ \E fetched \in InfoInputs \cup {EmptyDict} :
        /\ info' = fetched
        /\ sector' = PullSector(fetched)
        /\ pe_ratio' = Get(fetched, "trailingPE", NA)
        /\ pb_ratio' = Get(fetched, "priceToBook", NA)
        /\ roe' = TimesHundred(Get(fetched, "returnOnEquity", NA))
        /\ debt_to_equity' = OverHundred(Get(fetched, "debtToEquity", NA))
        /\ profit_margin' = TimesHundred(Get(fetched, "profitMargins", NA))
        /\ dividend_yield' = TimesHundred(Get(fetched, "dividendYield", NA))
        /\ operating_margin' = TimesHundred(Get(fetched, "operatingMargins", NA))
        /\ beta' = Get(fetched, "beta", NA)
        /\ current_ratio' = Get(fetched, "currentRatio", NA)
        /\ benchmarks' = LookupBenchmarks(PullSector(fetched))
    /\ pc' = "growth"
    /\ UNCHANGED <<financials, rev_growth, overall_score, detail_scores, reasons,
                   label, call, result>>

\* lines 176-185
ComputeRevenueGrowth ==
    /\ pc = "growth"
    /\ \E revenue_data \in RevenueInputs :
        /\ financials' = revenue_data
        /\ rev_growth' = RevGrowth(revenue_data)
    /\ pc' = "score"
    /\ UNCHANGED <<info, sector, pe_ratio, pb_ratio, roe, debt_to_equity,
                   profit_margin, dividend_yield, operating_margin, beta,
                   current_ratio, benchmarks, overall_score, detail_scores,
                   reasons, label, call, result>>

\* line 253: overall_score, detail_scores, reasons = compute_scores()
RunComputeScores ==
    /\ pc = "score"
    /\ \E comps \in {components} : \E returned \in {compute_scores(comps)} :
        /\ overall_score' = returned.overall
        /\ detail_scores' = returned.details
        /\ reasons' = returned.reasons
    /\ pc' = "label"
    /\ UNCHANGED <<info, financials, sector, pe_ratio, pb_ratio, roe,
                   debt_to_equity, profit_margin, dividend_yield,
                   operating_margin, beta, current_ratio, benchmarks, rev_growth,
                   label, call, result>>

\* line 262: label, color, icon = label_from_score(overall_score)
RunLabelFromScore ==
    /\ pc = "label"
    /\ label' = label_from_score(overall_score)
    /\ pc' = "done"
    /\ UNCHANGED <<info, financials, sector, pe_ratio, pb_ratio, roe,
                   debt_to_equity, profit_margin, dividend_yield,
                   operating_margin, beta, current_ratio, benchmarks, rev_growth,
                   overall_score, detail_scores, reasons, call, result>>

Next == FetchData \/ ComputeRevenueGrowth \/ RunComputeScores \/ RunLabelFromScore

Spec == Init /\ [][Next]_vars

(***************************************************************************)
(* The scorer harness: each action applies one function of the script to   *)
(* the arguments of the call, along the path the script takes to it.       *)
(***************************************************************************)
InitFn ==
    /\ pc = "harness"
    /\ info = EmptyDict
    /\ financials = Raises
    /\ sector = ""
    /\ pe_ratio = None /\ pb_ratio = None /\ roe = None
    /\ debt_to_equity = None /\ profit_margin = None /\ dividend_yield = None
    /\ operating_margin = None /\ beta = None /\ current_ratio = None
    /\ benchmarks = sector_benchmarks["Unknown"]
    /\ rev_growth = None
    /\ overall_score = None
    /\ detail_scores = EmptyDict
    /\ reasons = <<>>
    /\ label = ""
    /\ call \in Calls
    /\ result = NoResult

Apply(f, value, score, lbl) ==
    /\ pc = "harness"
    /\ call.f = f
    /\ ~result.done
    /\ result' = Result(value, score, lbl)
    /\ UNCHANGED <<script_vars, call>>

\* lines 143, 171, 199
ApplyPE ==
    LET pe == Get(call.info, "trailingPE", NA)
    IN  Apply("pe", pe, ScorePE(pe, LookupBenchmarks(PullSector(call.info))), "")

\* lines 145, 155, 171, 202
ApplyROE ==
    LET r == TimesHundred(Get(call.info, "returnOnEquity", NA))
    IN  Apply("roe", r, ScoreROE(r, LookupBenchmarks(PullSector(call.info))), "")

\* score_within_band_best with the caller's band
ApplyBand ==
    Apply("band", call.v,
          score_within_band_best(call.v, call.band.low, call.band.high,
                                 call.band.hard_low, call.band.hard_high), "")

\* line 210
ApplyCR == Apply("cr", call.v, ScoreCR(call.v), "")

\* line 212
ApplyBeta == Apply("beta", call.v, score_beta(call.v), "")

\* lines 176-185, 207
ApplyGrowth ==
    LET g == RevGrowth(call.revenue)
    IN  Apply("growth", g, score_revenue_growth(g), "")

\* line 262
ApplyLabel == Apply("label", call.v, None, label_from_score(call.v))

NextFn ==
    ApplyPE \/ ApplyROE \/ ApplyBand \/ ApplyCR \/ ApplyBeta \/ ApplyGrowth
    \/ ApplyLabel

SpecFn == InitFn /\ [][NextFn]_vars

(***************************************************************************)
(* Properties of the scorers and of label_from_score, checked under SpecFn *)
(***************************************************************************)
Applied(f) == call.f = f /\ result.done

\* C4: for every overall score in [0,100] with one decimal place,
\* label_from_score gives BUY exactly when the score is >= 80, HOLD exactly when
\* it is >= 60 and < 80, SELL exactly when it is < 60; so 79.9 is HOLD, 80.0 is
\* BUY, 59.9 is SELL and 60.0 is HOLD, and every score gets exactly one label.
C4_LabelBands ==
    Applied("label") =>
        LET tenths == (call.v.n * 10) \div call.v.d
        IN  /\ result.label \in {"BUY", "HOLD", "SELL"}
            /\ result.label = "BUY" <=> tenths >= 800
            /\ result.label = "HOLD" <=> (tenths >= 600 /\ tenths < 800)
            /\ result.label = "SELL" <=> tenths < 600
            /\ tenths = 799 => result.label = "HOLD"
            /\ tenths = 800 => result.label = "BUY"
            /\ tenths = 599 => result.label = "SELL"
            /\ tenths = 600 => result.label = "HOLD"

C4_Witness == Applied("label") /\ call.v = Num(800, 10) /\ result.label = "BUY"

\* C6: for every sector of the benchmark table and every numeric P/E, the P/E
\* sub-score is 100 at or below the sector's target, 0 at or above
\* looseHigh = max(2.5 * target, 10), and 100 * (1 - (value - target) /
\* (looseHigh - target)) strictly between; target < looseHigh for every sector.
C6_PEScore ==
    Applied("pe") =>
        LET v == call.info["trailingPE"]
            t == LookupBenchmarks(PullSector(call.info)).PE
            m == Mul(Num(25, 10), t)
            lh == IF Ge(m, Flt(10)) THEN m ELSE Flt(10)
        IN  /\ Lt(t, lh)
            /\ Le(v, t) => result.score = Flt(100)
            /\ Ge(v, lh) => result.score = Flt(0)
            /\ (Lt(t, v) /\ Lt(v, lh)) =>
                   /\ Mul(result.score, Sub(lh, t)) = Mul(Flt(100), Sub(lh, v))
                   /\ Lt(Flt(0), result.score) /\ Lt(result.score, Flt(100))

C6_Witness ==
    /\ Applied("pe")
    /\ PullSector(call.info) = "Technology"
    /\ call.info["trailingPE"] = Flt(40)
    /\ result.score = Flt(60)

\* C7: for every sector and every numeric return-on-equity fraction r, the ROE
\* sub-score is computed on 100 * r against the sector's ROE target: 100 when
\* 100 * r >= target, 0 when 100 * r <= 0, 100 * (100 * r) / target otherwise
\* (r = 0.12 in Technology gives 66.7); an unrecognized or missing sector uses
\* the Unknown entry's target 12.
C7_ROEScore ==
    Applied("roe") =>
        LET r == call.info["returnOnEquity"]
            pct == Num(100 * r.n, r.d)
            s == IF "sector" \in DOMAIN call.info THEN call.info["sector"] ELSE ""
            t == IF s \in DOMAIN sector_benchmarks THEN sector_benchmarks[s].ROE
                 ELSE Flt(12)
        IN  /\ result.value = pct
            /\ Ge(pct, t) => result.score = Flt(100)
            /\ Le(pct, Flt(0)) => result.score = Flt(0)
            /\ (Lt(Flt(0), pct) /\ Lt(pct, t)) =>
                   Mul(result.score, t) = Mul(Flt(100), pct)
            /\ (s = "Technology" /\ r = Num(12, 100)) =>
                   Round1(result.score) = Num(667, 10)

C7_Witness ==
    /\ Applied("roe")
    /\ "sector" \notin DOMAIN call.info
    /\ call.info["returnOnEquity"] = Num(6, 100)
    /\ result.score = Flt(50)

\* The band a call of score_within_band_best works with, defaults resolved.
BandOf(c) ==
    IF c.f = "cr" THEN Band(Num(15, 10), Flt(3), Num(8, 10), Flt(5))
    ELSE IF c.f = "beta" THEN Band(Num(8, 10), Num(12, 10), Num(4, 10), Num(18, 10))
    ELSE Band(c.band.low, c.band.high,
              IF c.band.hard_low = None
              THEN Sub(c.band.low, Sub(c.band.high, c.band.low))
              ELSE c.band.hard_low,
              IF c.band.hard_high = None
              THEN Add(c.band.high, Sub(c.band.high, c.band.low))
              ELSE c.band.hard_high)

\* What the function the call names returns for the value u.
BandScore(c, u) ==
    IF c.f = "cr" THEN ScoreCR(u)
    ELSE IF c.f = "beta" THEN score_beta(u)
    ELSE score_within_band_best(u, c.band.low, c.band.high, c.band.hard_low,
                                c.band.hard_high)

C9_Growth ==
    Applied("growth") =>
        LET data == call.revenue.data
            usable == call.revenue.ok /\ Len(data) >= 2 /\ data[2].n # 0
            \* g as a fraction gn / gd with gd > 0
            gn == 100 * (data[1].n - data[2].n)
            gd == data[2].n
            sc == result.score
        IN  /\ ~usable => (result.value = None /\ sc = None)
            /\ usable =>
                   /\ result.value = Num(gn, gd)
                   /\ gn >= 20 * gd => sc = Flt(100)
                   /\ (gn >= 10 * gd /\ gn < 20 * gd) =>
                          sc = Num(70 * gd + 3 * (gn - 10 * gd), gd)
                   /\ (gn >= 0 /\ gn < 10 * gd) => sc = Num(40 * gd + 3 * gn, gd)
                   /\ (gn < 0 /\ gn > -20 * gd) => sc = Num(40 * gd + 2 * gn, gd)
                   /\ gn <= -20 * gd => sc = Flt(0)
                   /\ (data[1] = Flt(110) /\ data[2] = Flt(100)) => sc = Flt(70)

C9_Witness ==
    /\ Applied("growth")
    /\ call.revenue = Revenues(<<Flt(114), Flt(120)>>)
    /\ result.value = Flt(-5)
    /\ result.score = Flt(30)

(***************************************************************************)
(* Properties of an evaluation, checked under Spec                         *)
(***************************************************************************)
\* compute_scores has returned and its results are assigned (line 253)
Scored == pc = "label"

\* The metrics in their fixed order, with their weights in hundredths.
MetricOrder ==
    <<"Valuation (PE)", "Valuation (PB)", "Profitability (ROE)",
      "Profitability (Margins)", "Growth (Revenue YoY)", "Health (Debt/Equity)",
      "Health (Current Ratio)", "Stability (Beta)", "Income (Dividend Yield)">>

FixedWeights == <<20, 10, 15, 10, 20, 8, 7, 5, 5>>

\* the indices of the metrics whose sub-score is a number
HasScore(comps) == {i \in 1..Len(comps) : comps[i].s # None}

RECURSIVE WeightSum(_)
WeightSum(idx) ==
    IF idx = {} THEN 0
    ELSE LET i == CHOOSE j \in idx : TRUE
         IN  FixedWeights[i] + WeightSum(idx \ {i})

\* the sum over idx of subScore * fixed weight (in hundredths)
RECURSIVE ScoreTimesWeight(_, _)
ScoreTimesWeight(comps, idx) ==
    IF idx = {} THEN Flt(0)
    ELSE LET i == CHOOSE j \in idx : TRUE
         IN  Add(Mul(comps[i].s, Flt(FixedWeights[i])),
                 ScoreTimesWeight(comps, idx \ {i}))

\* the sum over idx of the renormalized weights
RECURSIVE AdjWSum(_, _, _)
AdjWSum(comps, total, idx) ==
    IF idx = {} THEN Flt(0)
    ELSE LET i == CHOOSE j \in idx : TRUE
         IN  Add(AdjW(comps[i], total), AdjWSum(comps, total, idx \ {i}))

\* C1: whenever at least one metric is available, the unavailable metrics are
\* dropped, each remaining fixed weight is divided by the sum of the available
\* weights, the renormalized weights sum to 1, and overallScore is the sum over
\* the available metrics of subScore * renormalized weight, rounded to one
\* decimal place.
C1_Renormalized ==
    Scored =>
        \A comps \in {components} : \A avail \in {HasScore(comps)} :
            avail # {} =>
                \A total \in {TotalWeightAvailable(comps)} :
                    /\ \A i \in 1..Len(comps) :
                           /\ comps[i].name = MetricOrder[i]
                           /\ comps[i].w = Num(FixedWeights[i], 100)
                    /\ total = Num(WeightSum(avail), 100)
                    /\ AdjWSum(comps, total, avail) = Flt(1)
                    /\ DOMAIN detail_scores = {MetricOrder[i] : i \in avail}
                    /\ overall_score =
                           Round1(Div(ScoreTimesWeight(comps, avail),
                                      Flt(WeightSum(avail))))

C1_Witness ==
    /\ Scored
    /\ DOMAIN detail_scores = {"Valuation (PE)", "Stability (Beta)"}
    /\ detail_scores["Valuation (PE)"] = Num(350, 10)
    /\ detail_scores["Stability (Beta)"] = Flt(100)
    /\ overall_score = Flt(48)

\* Whether the provider gave no number for a value: the key is absent from
\* stock.info, or it holds None, a placeholder string or NaN.
MissingIn(dict, key) == key \notin DOMAIN dict \/ dict[key].k # "num"

\* Whether the raw input of metric i is missing.
RawMissing(i) ==
    CASE i = 1 -> MissingIn(info, "trailingPE")
      [] i = 2 -> MissingIn(info, "priceToBook")
      [] i = 3 -> MissingIn(info, "returnOnEquity")
      [] i = 4 -> MissingIn(info, "profitMargins") /\ MissingIn(info, "operatingMargins")
      [] i = 5 -> \/ ~financials.ok
                  \/ Len(financials.data) < 2
                  \/ financials.data[1].k # "num"
                  \/ financials.data[2].k # "num"
      [] i = 6 -> MissingIn(info, "debtToEquity")
      [] i = 7 -> MissingIn(info, "currentRatio")
      [] i = 8 -> MissingIn(info, "beta")
      [] i = 9 -> MissingIn(info, "dividendYield")

\* C2: a metric whose raw input is absent, None, a non-numeric placeholder or
\* NaN has no sub-score (never a numeric one such as 0), is not reported, and
\* its weight is not part of the sum of available weights.
C2_MissingNeverScored ==
    Scored =>
        \A comps \in {components} :
            /\ \A i \in 1..Len(comps) :
                   RawMissing(i) =>
                       /\ comps[i].s = None
                       /\ comps[i].name \notin DOMAIN detail_scores
            /\ Le(TotalWeightAvailable(comps),
                  Num(WeightSum({i \in 1..Len(comps) : ~RawMissing(i)}), 100))

\* the items of the line of reasons that starts with head, if there is one
ItemsOf(head) ==
    LET at == {j \in 1..Len(reasons) : reasons[j].head = head}
    IN  IF at = {} THEN <<>> ELSE reasons[CHOOSE j \in at : TRUE].items

Strengths == [j \in 1..Len(ItemsOf("Strengths: ")) |-> ItemsOf("Strengths: ")[j].name]
WatchOuts == [j \in 1..Len(ItemsOf("Watch-outs: ")) |-> ItemsOf("Watch-outs: ")[j].name]

\* C3: when all nine metrics are unavailable, the evaluation returns overall
\* score 0, label SELL, no strengths, no watch-outs and the insufficient-data
\* line, as a normal return value.
C3_AllUnavailable ==
    /\ (pc = "done" /\ reasons = InsufficientData) => label = "SELL"
    /\ Scored =>
        \A comps \in {components} :
            HasScore(comps) = {} =>
                /\ overall_score = Flt(0)
                /\ detail_scores = EmptyDict
                /\ Strengths = <<>> /\ WatchOuts = <<>>
                /\ \E j \in 1..Len(reasons) :
                       reasons[j].head = "No sufficient data to score."

C3_Witness ==
    /\ pc = "done"
    /\ \A comps \in {components} : HasScore(comps) = {}
    /\ DOMAIN info = MetricKeys \cup {"sector"}
    /\ financials = Revenues(<<Flt(100), Flt(0)>>)
    /\ reasons = InsufficientData
    /\ overall_score = Flt(0)
    /\ label = "SELL"

\* the names of MetricOrder, in order, whose sub-score passes the test
Picked(comps, Test(_)) ==
    LET Keep(i) == i \in HasScore(comps) /\ Test(i)
        RECURSIVE From(_)
        From(i) == IF i > Len(comps) THEN <<>>
                   ELSE (IF Keep(i) THEN <<MetricOrder[i]>> ELSE <<>>) \o From(i + 1)
    IN  From(1)

\* C5 as claimed: the strengths are exactly the available metrics whose
\* sub-score as reported in perMetricScores (rounded to one decimal place) is
\* >= 75, the watch-outs exactly those whose reported sub-score is <= 35, both
\* in the fixed metric order.
C5_ReportedThresholds ==
    (Scored /\ detail_scores # EmptyDict) =>
        \A comps \in {components} :
            LET Strong(i) == Ge(detail_scores[MetricOrder[i]], Flt(75))
                Weak(i) == Le(detail_scores[MetricOrder[i]], Flt(35))
            IN  /\ Strengths = Picked(comps, Strong)
                /\ WatchOuts = Picked(comps, Weak)

\* C5 as amended: the strengths are exactly the available metrics whose
\* sub-score before rounding is >= 75, the watch-outs exactly those whose
\* sub-score before rounding is <= 35, both in the fixed metric order; a metric
\* whose unrounded sub-score is strictly between 35 and 75 is in neither list
\* and no metric is in both.
C5_RawThresholds ==
    (Scored /\ detail_scores # EmptyDict) =>
        \A comps \in {components} :
            LET Strong(i) == Ge(comps[i].s, Flt(75))
                Weak(i) == Le(comps[i].s, Flt(35))
                listed(seq) == {seq[j] : j \in 1..Len(seq)}
            IN  /\ Strengths = Picked(comps, Strong)
                /\ WatchOuts = Picked(comps, Weak)
                /\ listed(Strengths) \cap listed(WatchOuts) = {}
                /\ \A i \in HasScore(comps) :
                       (Lt(Flt(35), comps[i].s) /\ Lt(comps[i].s, Flt(75))) =>
                           MetricOrder[i] \notin listed(Strengths) \cup listed(WatchOuts)

C5_Witness ==
    /\ Scored
    /\ {"Health (Debt/Equity)", "Valuation (PE)"} \subseteq DOMAIN detail_scores
    /\ detail_scores["Health (Debt/Equity)"] = Flt(75)
    /\ detail_scores["Valuation (PE)"] = Flt(35)
    /\ Strengths = <<"Valuation (PB)", "Profitability (ROE)", "Stability (Beta)">>
    /\ WatchOuts = <<"Income (Dividend Yield)">>

\* C10: with at least one metric available, every sub-score lies in [0,100],
\* the overall score before rounding lies between the smallest and the largest
\* available sub-score, so overallScore is in [0,100]; if every available
\* sub-score is 100 the overall score is 100, however many metrics are missing.
C10_Range ==
    Scored =>
        \A comps \in {components} : \A avail \in {HasScore(comps)} :
            avail # {} =>
                \A raw \in {Overall(comps)} :
                    /\ \A i \in avail :
                           Le(Flt(0), comps[i].s) /\ Le(comps[i].s, Flt(100))
                    /\ \E i \in avail : Le(comps[i].s, raw)
                    /\ \E i \in avail : Le(raw, comps[i].s)
                    /\ overall_score = Round1(raw)
                    /\ Le(Flt(0), overall_score) /\ Le(overall_score, Flt(100))
                    /\ (\A i \in avail : comps[i].s = Flt(100)) =>
                           overall_score = Flt(100)

C10_Witness ==
    /\ Scored
    /\ Cardinality(DOMAIN detail_scores) = 3
    /\ \A nm \in DOMAIN detail_scores : detail_scores[nm] = Flt(100)
    /\ overall_score = Flt(100)

====
